---- MODULE Spec2Model ----
(***************************************************************************)
(* Model of klipper/extras/toolchanger.py: the Toolchanger object (status, *)
(* active tool, tool registry), its commands, the hook runner run_gcode    *)
(* and the position/offset arithmetic.                                     *)
(*                                                                         *)
(* Python calls are modelled with an explicit call stack: a command or a   *)
(* method pushes a frame, the frame's steps follow the statements of the   *)
(* method, and a hook (a gcode template) may itself issue commands, which  *)
(* push further frames.  A raised exception is held in exc while the       *)
(* command dispatcher reports it.                                          *)
(*                                                                         *)
(* A hook script is modelled by the toolchanger commands it issues, by its *)
(* running to its end and by its failing; the other gcode it runs is not   *)
(* modelled.                                                               *)
(*                                                                         *)
(* Numbers (positions, offsets) are fixed-point: one unit is 0.0000001,    *)
(* so that the six-decimal '%f' formatting of SET_GCODE_OFFSET is a        *)
(* rounding to a multiple of Scale.                                        *)
(***************************************************************************)
EXTENDS Integers, Sequences, FiniteSets, TLC

VARIABLES
    status,         \* self.status
    active_tool,    \* self.active_tool (a tool name, or NoTool for None)
    tools,          \* self.tools: dict number -> tool
    tool_numbers,   \* self.tool_numbers
    tool_names,     \* self.tool_names
    error_message,  \* self.error_message
    initialize_on,  \* self.initialize_on (fixed by the configuration)
    gcode_offset,   \* gcode_move: the applied SET_GCODE_OFFSET offset, X Y Z
    saved_state,    \* gcode_move: the state saved as _toolchange_state
    stack,          \* the Python call stack, innermost frame last
    exc             \* the exception being propagated, or NoExc

vars == <<status, active_tool, tools, tool_numbers, tool_names, error_message,
          initialize_on, gcode_offset, saved_state, stack, exc>>

----------------------------------------------------------------------------
(* Bounds of the model.                                                    *)

\* Tool numbers range over 0..MaxToolNumber.
MaxToolNumber == 1
\* While commands run, assign_tool is called only where it leaves the ordered
\* lists no longer than MaxAssigned; with the registry explored on its own
\* (SpecRegistry) the lists grow to MaxRegLen.
MaxAssigned == 1
MaxRegLen == 3
\* Commands the hook scripts of one operation issue, nested hooks included.
MaxScriptCmds == 2

----------------------------------------------------------------------------
(* Program constants.                                                      *)

STATUS_UNINITALIZED == "uninitialized"
STATUS_INITIALIZING == "initializing"
STATUS_READY == "ready"
STATUS_CHANGING == "changing"
STATUS_ERROR == "error"
INIT_ON_HOME == 0
INIT_MANUAL == 1
INIT_FIRST_USE == 2
XYZ_TO_INDEX == [c \in {"x", "X", "y", "Y", "z", "Z"} |->
                    IF c \in {"x", "X"} THEN 0 ELSE IF c \in {"y", "Y"} THEN 1 ELSE 2]
INDEX_TO_XYZ == <<"X", "Y", "Z">>

\* Units per 0.000001, the resolution of '%f'.
Scale == 10

----------------------------------------------------------------------------
(* Tools.  A tool is known by its name; an optional number (a config float *)
(* that may be None) is a set with at most one element.                    *)

NoTool == "None"
None == {}

ToolNames == {"T1", "T2"}
\* The tools that are given a number while commands run; T2 is selected by
\* name only.
NumberedTools == {"T1"}

\* tool.gcode_x_offset, tool.gcode_y_offset, tool.gcode_z_offset: T1 defines
\* every axis, T2 only Z, with more than six decimals.
gcode_x_offset(tool) == IF tool = "T1" THEN {10} ELSE None
gcode_y_offset(tool) == IF tool = "T1" THEN {20} ELSE None
gcode_z_offset(tool) == IF tool = "T1" THEN {0} ELSE {53}

Value(opt) == CHOOSE v \in opt : TRUE

\* gcode_move.get_status()['gcode_position'] values the commands may capture.
Positions == {<<100, 100, 100>>, <<0, 30, 70>>}
\* RESTORE_AXIS / t_command_restore_axis values.
RestoreAxes == {<<>>, <<"Z">>, <<"x", "Y">>}
\* The axis strings _restore_position_with_tool_offset is explored with on
\* its own (SpecRestore).
AxisLetters == {"x", "X", "y", "Y", "z", "Z"}
AxisStrings == {<<>>} \cup {<<a>> : a \in AxisLetters}
               \cup {<<a, b>> : a \in AxisLetters, b \in AxisLetters}
\* MESSAGE values of SELECT_TOOL_ERROR.
Messages == {"m1"}

\* What printer.lookup_object('bed_mesh') finds when _set_tool_gcode_offset
\* runs: no such object, one without a mesh, one with a mesh loaded.
BedMesh == {"absent", "idle", "loaded"}

\* initialize_on of the configurations explored.  With INIT_MANUAL the
\* object runs as with INIT_ON_HOME when no homing happens, so its runs are
\* among those explored.
Configurations == {INIT_ON_HOME, INIT_FIRST_USE}

Numbers == 0..MaxToolNumber
PrevNumbers == -1..MaxToolNumber

----------------------------------------------------------------------------
(* Tool registry: assign_tool, lookup_tool.                                *)

Remove(seq, x) ==
    \* list.remove(x): drops the first occurrence
    LET i == CHOOSE k \in 1..Len(seq) : seq[k] = x /\ \A j \in 1..(k - 1) : seq[j] # x
    IN  SubSeq(seq, 1, i - 1) \o SubSeq(seq, i + 1, Len(seq))

Insert(seq, position, x) ==
    \* list.insert(position, x), position 0-based
    SubSeq(seq, 1, position) \o <<x>> \o SubSeq(seq, position + 1, Len(seq))

Contains(seq, x) == \E k \in 1..Len(seq) : seq[k] = x

RECURSIVE bisect_left_loop(_, _, _, _)
bisect_left_loop(a, x, lo, hi) ==
    IF lo < hi
    THEN LET mid == (lo + hi) \div 2
         IN  IF a[mid + 1] < x
             THEN bisect_left_loop(a, x, mid + 1, hi)
             ELSE bisect_left_loop(a, x, lo, mid)
    ELSE lo

bisect_left(a, x) == bisect_left_loop(a, x, 0, Len(a))

Registry(t, nums, names) == [tools |-> t, tool_numbers |-> nums, tool_names |-> names]

assign_tool_insert(reg, tool, number) ==
    \* lines 104-107
    LET position == bisect_left(reg.tool_numbers, number)
    IN  Registry([n \in DOMAIN reg.tools \cup {number} |->
                     IF n = number THEN tool ELSE reg.tools[n]],
                 Insert(reg.tool_numbers, position, number),
                 Insert(reg.tool_names, position, tool))

\* assign_tool(tool, number, prev_number, replace): the registry it leaves and
\* the exception it raises ("none" when it returns).  A failing list.remove
\* leaves the statements before it in effect.
assign_tool(reg, tool, number, prev_number, replace) ==
    IF number \in DOMAIN reg.tools /\ ~replace
    THEN [reg |-> reg, raises |-> "Duplicate tools"]
    ELSE IF prev_number \in DOMAIN reg.tools
    THEN LET t1 == [n \in DOMAIN reg.tools \ {prev_number} |-> reg.tools[n]]
         IN  IF ~Contains(reg.tool_numbers, prev_number)
             THEN [reg |-> Registry(t1, reg.tool_numbers, reg.tool_names),
                   raises |-> "ValueError"]
             ELSE IF ~Contains(reg.tool_names, tool)
             THEN [reg |-> Registry(t1, Remove(reg.tool_numbers, prev_number),
                                    reg.tool_names),
                   raises |-> "ValueError"]
             ELSE [reg |-> assign_tool_insert(
                               Registry(t1, Remove(reg.tool_numbers, prev_number),
                                        Remove(reg.tool_names, tool)),
                               tool, number),
                   raises |-> "none"]
    ELSE [reg |-> assign_tool_insert(reg, tool, number), raises |-> "none"]

lookup_tool(reg, number) ==
    IF number \in DOMAIN reg.tools THEN reg.tools[number] ELSE NoTool

----------------------------------------------------------------------------
(* Position / offset arithmetic.                                           *)

tool_offset(tool, index) ==
    \* lines 331-336
    IF index = 0 THEN gcode_x_offset(tool)
    ELSE IF index = 1 THEN gcode_y_offset(tool)
    ELSE gcode_z_offset(tool)

EmptyDict == [k \in {} |-> 0]

Put(dict, key, v) == [k \in DOMAIN dict \cup {key} |-> IF k = key THEN v ELSE dict[k]]

\* The loop of _restore_position_with_tool_offset from the k-th character of
\* axis on: the dict it returns, or the exception it raises.
RECURSIVE restore_position_loop(_, _, _, _, _)
restore_position_loop(position, axis, tool, k, result) ==
    IF k > Len(axis)
    THEN [raises |-> "none", value |-> result]
    ELSE IF axis[k] \notin DOMAIN XYZ_TO_INDEX
    THEN [raises |-> "KeyError", value |-> result]
    ELSE LET index == XYZ_TO_INDEX[axis[k]]
             v == position[index + 1]
         IN  IF tool # NoTool
             THEN IF tool_offset(tool, index) = None
                  THEN [raises |-> "TypeError", value |-> result]
                  ELSE restore_position_loop(position, axis, tool, k + 1,
                           Put(result, INDEX_TO_XYZ[index + 1],
                               v + Value(tool_offset(tool, index))))
             ELSE restore_position_loop(position, axis, tool, k + 1,
                      Put(result, INDEX_TO_XYZ[index + 1], v))

_restore_position_with_tool_offset(position, axis, tool) ==
    restore_position_loop(position, axis, tool, 1, EmptyDict)

\* '%f' % v, read back by the command parser: v rounded to six decimals.
FormatF(v) == ((v + (Scale \div 2)) \div Scale) * Scale

Ev(name, arg) == <<name, arg>>

_restore_axis_without_offset(position, axis, tool) ==
    IF axis = <<>>
    THEN [raises |-> "none", g0 |-> <<>>]
    ELSE [raises |-> "none",
          g0 |-> <<_restore_position_with_tool_offset(position, axis, NoTool).value>>]

\* _restore_axis(position, axis, tool): the G0 targets issued (at most one)
\* and the exception raised.
_restore_axis(position, axis, tool) ==
    IF axis = <<>>
    THEN [raises |-> "none", g0 |-> <<>>]
    ELSE LET pos == _restore_position_with_tool_offset(position, axis, tool)
         IN  IF pos.raises # "none"
             THEN [raises |-> pos.raises, g0 |-> <<>>]
             ELSE [raises |-> "none", g0 |-> <<pos.value>>]

SetGcodeOffsetZeroing(offset, tool) ==
    [i \in 1..3 |-> IF tool_offset(tool, i - 1) = None
                    THEN 0
                    ELSE FormatF(Value(tool_offset(tool, i - 1)))]

\* The offset gcode_move holds after the SET_GCODE_OFFSET of lines 312-318,
\* which names the axes the tool defines.
SetGcodeOffset(offset, tool) ==
    [i \in 1..3 |-> IF tool_offset(tool, i - 1) = None
                    THEN offset[i]
                    ELSE FormatF(Value(tool_offset(tool, i - 1)))]

\* _set_tool_gcode_offset(tool) with the applied offset being `offset` and the
\* bed_mesh object being `mesh`: the offset it leaves, the commands it issued
\* and the exception it raises.
_set_tool_gcode_offset(offset, tool, mesh) ==
    IF tool = NoTool
    THEN [offset |-> offset, cmds |-> <<>>, raises |-> "none"]
    ELSE IF gcode_x_offset(tool) = None /\ gcode_y_offset(tool) = None
            /\ gcode_z_offset(tool) = None
    THEN [offset |-> offset, cmds |-> <<>>, raises |-> "none"]
    ELSE LET applied == SetGcodeOffset(offset, tool)
             set == <<Ev("SET_GCODE_OFFSET", tool)>>
         IN  IF mesh = "absent"
             THEN [offset |-> applied, cmds |-> set, raises |-> "ConfigError"]
             ELSE IF mesh = "loaded"
             THEN IF gcode_x_offset(tool) = None \/ gcode_y_offset(tool) = None
                  THEN [offset |-> applied, cmds |-> set, raises |-> "TypeError"]
                  ELSE [offset |-> applied,
                        cmds |-> set \o <<Ev("BED_MESH_OFFSET", tool)>>,
                        raises |-> "none"]
             ELSE [offset |-> applied, cmds |-> set, raises |-> "none"]

ConfigureEventsActivateFirst(old, tool) ==
    (IF tool # NoTool THEN <<Ev("activate", tool)>> ELSE <<>>)
    \o (IF old # NoTool THEN <<Ev("deactivate", old)>> ELSE <<>>)

\* _configure_toolhead_for_tool: the deactivate / activate calls it makes.
ConfigureEvents(old, tool) ==
    (IF old # NoTool THEN <<Ev("deactivate", old)>> ELSE <<>>)
    \o (IF tool # NoTool THEN <<Ev("activate", tool)>> ELSE <<>>)

----------------------------------------------------------------------------
(* Call stack.                                                             *)

NoExc == [kind |-> "none"]
Raise(kind) == [kind |-> kind]
NoMsg == "<none>"
ZeroOffset == <<0, 0, 0>>
NoSave == <<>>

\* A frame: the method running (op), where it is (pc), its arguments and
\* locals, and the calls it has made so far (trace, g0).
Frame(op, tool, axis) ==
    [op |-> op, pc |-> "start", tool |-> tool, axis |-> axis,
     position |-> ZeroOffset, restore_position |-> EmptyDict,
     should_run_initialize |-> FALSE,
     name |-> "", current_status |-> "", message |-> NoMsg, cmds |-> 0,
     trace |-> <<>>, g0 |-> <<>>]

\* run_gcode(name, template, extra_context) entered with self.status = st
\* (line 348); tool is the tool whose template it is, if any.
HookFrame(name, tool, st, ctx) ==
    [Frame("run_gcode", tool, <<>>) EXCEPT !.pc = "script", !.name = name,
                                        !.current_status = st,
                                        !.restore_position = ctx]

Top == stack[Len(stack)]
Pop(s) == SubSeq(s, 1, Len(s) - 1)
SetTop(s, f) == [s EXCEPT ![Len(s)] = f]

InScript == stack # <<>> /\ Top.op = "run_gcode" /\ Top.pc = "script"

RECURSIVE ScriptCmds(_)
ScriptCmds(s) == IF s = <<>> THEN 0 ELSE s[Len(s)].cmds + ScriptCmds(Pop(s))

\* A command can be issued by the user when nothing runs, or by the script
\* of the hook that is running.
CanCall ==
    /\ exc = NoExc
    /\ \/ stack = <<>>
       \/ /\ InScript
          /\ ScriptCmds(stack) < MaxScriptCmds

\* The stack once the caller has issued command cmd.
\* The stack once the caller has issued command cmd: a running script counts
\* the commands it has issued and remembers the first MESSAGE it has signalled.
CalledWith(cmd, arg) ==
    IF stack = <<>> THEN stack
    ELSE SetTop(stack, [Top EXCEPT !.cmds = @ + 1,
                                   !.message = IF cmd = "SELECT_TOOL_ERROR" /\ @ = NoMsg
                                               THEN arg ELSE @])
Called(cmd) == CalledWith(cmd, "")

Init ==
    /\ status = STATUS_UNINITALIZED
    /\ active_tool = NoTool
    /\ tools = EmptyDict
    /\ tool_numbers = <<>>
    /\ tool_names = <<>>
    /\ error_message = ""
    /\ initialize_on \in Configurations
    /\ gcode_offset = ZeroOffset
    /\ saved_state = NoSave
    /\ stack = <<>>
    /\ exc = NoExc

Reg == Registry(tools, tool_numbers, tool_names)

Running(op, pc) == exc = NoExc /\ stack # <<>> /\ Top.op = op /\ Top.pc = pc

\* The stack once the running method has raised.
Raised == SetTop(stack, [Top EXCEPT !.pc = "raised"])

Traced(frame, events) == [frame EXCEPT !.trace = @ \o events]

At(frame, pc) == [frame EXCEPT !.pc = pc]

\* What a method does up to its first hook, its return or its raise: the
\* exception raised, the fields it leaves and the frames it leaves on the
\* stack in place of its own (none once it has raised).
Outcome(e, st, saved, offset, frames) ==
    [exc |-> e, status |-> st, saved_state |-> saved, gcode_offset |-> offset,
     frames |-> frames]

----------------------------------------------------------------------------
(* initialize (lines 189-213).                                             *)

initialize_allowed_always(st) == TRUE

\* line 190
initialize_allowed(st) == st # STATUS_CHANGING

should_run_initialize_always(st) == TRUE

should_run_initialize_unless_nested(st) ==
    st # STATUS_INITIALIZING \/ stack = <<>>

\* line 195
should_run_initialize(st) == st # STATUS_INITIALIZING

\* lines 190-199
initialize_enter(frame) ==
    IF ~initialize_allowed(status)
    THEN Outcome(Raise("Cannot initialize while changing tools"), status,
                 saved_state, gcode_offset, <<>>)
    ELSE IF should_run_initialize(status)
    THEN Outcome(NoExc, STATUS_INITIALIZING, saved_state, gcode_offset,
                 <<Traced([At(frame, "l201") EXCEPT !.should_run_initialize = TRUE],
                          <<Ev("initialize_gcode", "")>>),
                   HookFrame("initialize_gcode", NoTool, STATUS_INITIALIZING,
                             EmptyDict)>>)
    ELSE Outcome(NoExc, status, saved_state, gcode_offset,
                 <<[At(frame, "l201") EXCEPT !.should_run_initialize = FALSE]>>)

\* lines 201-203
initialize_select ==
    /\ Running("initialize", "l201")
    /\ IF Top.tool # NoTool
       THEN /\ active_tool' = Top.tool
            /\ stack' = SetTop(stack,
                          Traced(At(Top, "l204"),
                                 ConfigureEvents(active_tool, Top.tool)
                                 \o <<Ev("after_change_gcode", "")>>))
                         \o <<HookFrame("after_change_gcode", NoTool, status, EmptyDict)>>
       ELSE /\ active_tool' = active_tool
            /\ stack' = SetTop(stack, At(Top, "l206"))
    /\ UNCHANGED <<status, tools, tool_numbers, tool_names, error_message,
                   initialize_on, gcode_offset, saved_state, exc>>

\* line 204
initialize_offset ==
    /\ Running("initialize", "l204")
    /\ \E mesh \in BedMesh :
       LET r == _set_tool_gcode_offset(gcode_offset, Top.tool, mesh)
       IN  /\ gcode_offset' = r.offset
           /\ IF r.raises # "none"
              THEN /\ exc' = Raise(r.raises)
                   /\ stack' = SetTop(stack, Traced(At(Top, "raised"), r.cmds))
              ELSE /\ exc' = exc
                   /\ stack' = SetTop(stack, Traced(At(Top, "l206"), r.cmds))
    /\ UNCHANGED <<status, active_tool, tools, tool_numbers, tool_names,
                   error_message, initialize_on, saved_state>>

\* lines 206-213
initialize_finish ==
    /\ Running("initialize", "l206")
    /\ IF Top.should_run_initialize
       THEN IF status = STATUS_INITIALIZING
            THEN /\ status' = STATUS_READY
                 /\ exc' = exc
                 /\ stack' = SetTop(stack, At(Top, "return"))
            ELSE /\ status' = status
                 /\ exc' = Raise("failed to initialize")
                 /\ stack' = Raised
       ELSE /\ status' = status
            /\ exc' = exc
            /\ stack' = SetTop(stack, At(Top, "return"))
    /\ UNCHANGED <<active_tool, tools, tool_numbers, tool_names, error_message,
                   initialize_on, gcode_offset, saved_state>>

----------------------------------------------------------------------------
(* select_tool (lines 215-265).                                            *)

select_tool_ready(st) == st = STATUS_READY

already_selected_tool_only(active, tool) == active = tool /\ tool # NoTool

already_selected(active, tool) == active = tool

select_tool_refused_changing ==
    Outcome(Raise("Cannot select tool"), STATUS_CHANGING, saved_state,
            gcode_offset, <<>>)

\* lines 219-220
select_tool_refused ==
    Outcome(Raise("Cannot select tool"), status, saved_state, gcode_offset, <<>>)

\* lines 218-239, with gcode_position the position gcode_move reports and
\* respond_fails whether respond_info rejects a None message.
select_tool_begin(frame, gcode_position, respond_fails) ==
    IF ~select_tool_ready(status)
    THEN select_tool_refused
    ELSE IF already_selected(active_tool, frame.tool)
    THEN IF frame.tool = NoTool /\ respond_fails
         THEN Outcome(Raise("AttributeError"), status, saved_state, gcode_offset, <<>>)
         ELSE Outcome(NoExc, status, saved_state, gcode_offset,
                      <<At(frame, "return")>>)
    ELSE LET rp == _restore_position_with_tool_offset(
                       gcode_position, frame.axis, frame.tool)
         IN  IF rp.raises # "none"
             THEN Outcome(Raise(rp.raises), STATUS_CHANGING, saved_state,
                          gcode_offset, <<>>)
             ELSE Outcome(NoExc, STATUS_CHANGING, gcode_offset, gcode_offset,
                          <<Traced([At(frame, "l240") EXCEPT
                                       !.position = gcode_position,
                                       !.restore_position = rp.value],
                                   <<Ev("SAVE_GCODE_STATE", ""),
                                     Ev("before_change_gcode", "")>>),
                            HookFrame("before_change_gcode", NoTool,
                                      STATUS_CHANGING, rp.value)>>)

\* lines 216-239
select_tool_enter(frame, gcode_position, respond_fails) ==
    IF status = STATUS_UNINITALIZED /\ initialize_on = INIT_FIRST_USE
    THEN LET i == initialize_enter(Frame("initialize", NoTool, <<>>))
         IN  Outcome(i.exc, i.status, saved_state, gcode_offset,
                     <<Traced(At(frame, "l218"), <<Ev("initialize", "")>>)>>
                     \o i.frames)
    ELSE select_tool_begin(frame, gcode_position, respond_fails)

\* lines 218-239 once the initialize of line 217 has returned
select_tool_resume ==
    /\ Running("select_tool", "l218")
    /\ \E gcode_position \in Positions, respond_fails \in BOOLEAN :
          LET r == select_tool_begin(Top, gcode_position, respond_fails)
          IN  /\ exc' = r.exc
              /\ status' = r.status
              /\ saved_state' = r.saved_state
              /\ stack' = Pop(stack) \o r.frames
    /\ UNCHANGED <<active_tool, tools, tool_numbers, tool_names, error_message,
                   initialize_on, gcode_offset>>

\* lines 240-244
select_tool_dropoff ==
    /\ Running("select_tool", "l240")
    /\ gcode_offset' = ZeroOffset
    /\ IF active_tool # NoTool
       THEN stack' = SetTop(stack,
                       Traced(At(Top, "l246"),
                              <<Ev("SET_GCODE_OFFSET", "0"),
                                Ev("tool.dropoff_gcode", active_tool)>>))
                      \o <<HookFrame("tool.dropoff_gcode", active_tool, status,
                                     Top.restore_position)>>
       ELSE stack' = SetTop(stack,
                       Traced(At(Top, "l246"), <<Ev("SET_GCODE_OFFSET", "0")>>))
    /\ UNCHANGED <<status, active_tool, tools, tool_numbers, tool_names,
                   error_message, initialize_on, saved_state, exc>>

\* lines 246-249
select_tool_pickup ==
    /\ Running("select_tool", "l246")
    /\ IF Top.tool # NoTool
       THEN /\ active_tool' = Top.tool
            /\ stack' = SetTop(stack,
                          Traced(At(Top, "l250"),
                                 ConfigureEvents(active_tool, Top.tool)
                                 \o <<Ev("tool.pickup_gcode", Top.tool)>>))
                         \o <<HookFrame("tool.pickup_gcode", Top.tool, status,
                                        Top.restore_position)>>
       ELSE /\ active_tool' = active_tool
            /\ stack' = SetTop(stack, At(Top, "l253"))
    /\ UNCHANGED <<status, tools, tool_numbers, tool_names, error_message,
                   initialize_on, gcode_offset, saved_state, exc>>

\* lines 250-251
select_tool_after_change ==
    /\ Running("select_tool", "l250")
    /\ stack' = SetTop(stack,
                  Traced(At(Top, "l253"), <<Ev("after_change_gcode", "")>>))
                 \o <<HookFrame("after_change_gcode", NoTool, status,
                                Top.restore_position)>>
    /\ UNCHANGED <<status, active_tool, tools, tool_numbers, tool_names,
                   error_message, initialize_on, gcode_offset, saved_state,
                   exc>>

\* lines 253-265
select_tool_finish ==
    /\ Running("select_tool", "l253")
    /\ \E mesh \in BedMesh :
       LET ra == _restore_axis(Top.position, Top.axis, Top.tool)
           so == _set_tool_gcode_offset(saved_state, Top.tool, mesh)
           moved == IF ra.g0 # <<>> THEN <<Ev("G0", "")>> ELSE <<>>
       IN  IF ra.raises # "none"
           THEN /\ exc' = Raise(ra.raises)
                /\ stack' = Raised
                /\ UNCHANGED <<status, gcode_offset>>
           ELSE /\ gcode_offset' = so.offset
                /\ IF so.raises # "none"
                   THEN /\ exc' = Raise(so.raises)
                        /\ status' = status
                        /\ stack' = SetTop(stack,
                              Traced([At(Top, "raised") EXCEPT !.g0 = ra.g0],
                                     moved \o <<Ev("RESTORE_GCODE_STATE", "")>>
                                     \o so.cmds))
                   ELSE /\ exc' = exc
                        /\ status' = STATUS_READY
                        /\ stack' = SetTop(stack,
                              Traced([At(Top, "return") EXCEPT !.g0 = ra.g0],
                                     moved \o <<Ev("RESTORE_GCODE_STATE", "")>>
                                     \o so.cmds))
    /\ UNCHANGED <<active_tool, tools, tool_numbers, tool_names, error_message,
                   initialize_on, saved_state>>

----------------------------------------------------------------------------
(* test_tool_selection (lines 267-291).                                    *)

\* lines 268-285
test_tool_selection_enter(frame, gcode_position) ==
    IF status # STATUS_READY
    THEN Outcome(Raise("Cannot test tool"), status, saved_state, gcode_offset, <<>>)
    ELSE IF active_tool = NoTool
    THEN Outcome(Raise("Cannot test tool, no active tool"), status, saved_state,
                 gcode_offset, <<>>)
    ELSE LET rp == _restore_position_with_tool_offset(
                       gcode_position, frame.axis, active_tool)
         IN  IF rp.raises # "none"
             THEN Outcome(Raise(rp.raises), STATUS_CHANGING, saved_state,
                          gcode_offset, <<>>)
             ELSE Outcome(NoExc, STATUS_CHANGING, saved_state, ZeroOffset,
                          <<Traced([At(frame, "l286") EXCEPT
                                       !.tool = active_tool,
                                       !.position = gcode_position,
                                       !.restore_position = rp.value],
                                   <<Ev("SET_GCODE_OFFSET", "0"),
                                     Ev("tool.dropoff_gcode", active_tool)>>),
                            HookFrame("tool.dropoff_gcode", active_tool,
                                      STATUS_CHANGING, rp.value)>>)

\* lines 286-287
test_tool_selection_pickup ==
    /\ Running("test_tool_selection", "l286")
    /\ stack' = SetTop(stack,
                  Traced(At(Top, "l289"), <<Ev("tool.pickup_gcode", Top.tool)>>))
                 \o <<HookFrame("tool.pickup_gcode", Top.tool, status,
                                Top.restore_position)>>
    /\ UNCHANGED <<status, active_tool, tools, tool_numbers, tool_names,
                   error_message, initialize_on, gcode_offset, saved_state,
                   exc>>

\* lines 289-291
test_tool_selection_finish ==
    /\ Running("test_tool_selection", "l289")
    /\ LET ra == _restore_axis(Top.position, Top.axis, NoTool)
           moved == IF ra.g0 # <<>> THEN <<Ev("G0", "")>> ELSE <<>>
       IN  IF ra.raises # "none"
           THEN /\ exc' = Raise(ra.raises)
                /\ stack' = Raised
                /\ status' = status
           ELSE /\ exc' = exc
                /\ status' = STATUS_READY
                /\ stack' = SetTop(stack,
                      Traced([At(Top, "return") EXCEPT !.g0 = ra.g0], moved))
    /\ UNCHANGED <<active_tool, tools, tool_numbers, tool_names, error_message,
                   initialize_on, gcode_offset, saved_state>>

----------------------------------------------------------------------------
(* Commands and calls from outside.                                        *)

Frozen == <<active_tool, tools, tool_numbers, tool_names, error_message,
            initialize_on>>

\* The caller issues cmd, which runs a method up to outcome r.
Enter(cmd, r) ==
    /\ exc' = r.exc
    /\ status' = r.status
    /\ saved_state' = r.saved_state
    /\ gcode_offset' = r.gcode_offset
    /\ stack' = Called(cmd) \o r.frames
    /\ UNCHANGED Frozen

\* The caller issues cmd, which raises before it calls anything.
Rejected(cmd, message) ==
    /\ exc' = Raise(message)
    /\ stack' = Called(cmd)
    /\ UNCHANGED <<status, saved_state, gcode_offset>>
    /\ UNCHANGED Frozen

\* assign_tool(tool, number, prev_number, replace) called by a tool when it
\* is configured or renumbered, nothing else running.
AssignToolCall(tool, number, prev_number, replace, max_len) ==
    /\ exc = NoExc /\ stack = <<>>
    /\ LET r == assign_tool(Reg, tool, number, prev_number, replace)
       IN  /\ Len(r.reg.tool_numbers) <= max_len
           /\ Len(r.reg.tool_names) <= max_len
           /\ tools' = r.reg.tools
           /\ tool_numbers' = r.reg.tool_numbers
           /\ tool_names' = r.reg.tool_names
           /\ exc' = IF r.raises = "none" THEN NoExc ELSE Raise(r.raises)
    /\ UNCHANGED <<status, active_tool, error_message, initialize_on,
                   gcode_offset, saved_state, stack>>

AssignTool ==
    \E tool \in NumberedTools, number \in Numbers, prev_number \in PrevNumbers,
       replace \in BOOLEAN :
       AssignToolCall(tool, number, prev_number, replace, MaxAssigned)

\* The tool a command names by TOOL=name or T=number (-1: parameter absent);
\* T is looked up last and so wins.
CommandTool(tool_name, tool_number) ==
    IF tool_number # -1 THEN lookup_tool(Reg, tool_number) ELSE tool_name

cmd_INITIALIZE_TOOLCHANGER ==
    /\ CanCall
    /\ \E tool_name \in ToolNames \cup {NoTool}, tool_number \in PrevNumbers :
          LET tool == CommandTool(tool_name, tool_number)
          IN  IF tool_number # -1 /\ tool = NoTool
              THEN Rejected("INITIALIZE_TOOLCHANGER", "Tool is not assigned")
              ELSE Enter("INITIALIZE_TOOLCHANGER",
                         initialize_enter(Frame("initialize", tool, <<>>)))

cmd_SELECT_TOOL ==
    /\ CanCall
    /\ \E tool_name \in ToolNames \cup {NoTool}, tool_nr \in PrevNumbers,
          restore_axis \in RestoreAxes, gcode_position \in Positions :
          LET tool == IF tool_name # NoTool THEN tool_name
                      ELSE CommandTool(NoTool, tool_nr)
          IN  IF tool_name = NoTool /\ tool_nr = -1
              THEN Rejected("SELECT_TOOL",
                            "Select tool: Either TOOL or T needs to be specified")
              ELSE IF tool = NoTool
              THEN Rejected("SELECT_TOOL", "Select tool: not found")
              ELSE Enter("SELECT_TOOL",
                         select_tool_enter(Frame("select_tool", tool, restore_axis),
                                           gcode_position, FALSE))

cmd_UNSELECT_TOOL ==
    /\ CanCall
    /\ \E restore_axis \in RestoreAxes, gcode_position \in Positions :
          IF active_tool = NoTool
          THEN /\ stack' = Called("UNSELECT_TOOL")
               /\ UNCHANGED <<status, saved_state, gcode_offset, exc>>
               /\ UNCHANGED Frozen
          ELSE Enter("UNSELECT_TOOL",
                     select_tool_enter(Frame("select_tool", NoTool, restore_axis),
                                       gcode_position, FALSE))

cmd_TEST_TOOL_DOCKING ==
    /\ CanCall
    /\ \E restore_axis \in RestoreAxes, gcode_position \in Positions :
          IF active_tool = NoTool
          THEN Rejected("TEST_TOOL_DOCKING", "Cannot test tool, no active tool")
          ELSE Enter("TEST_TOOL_DOCKING",
                     test_tool_selection_enter(
                         Frame("test_tool_selection", NoTool, restore_axis),
                         gcode_position))

select_tool_error_applies_changing(st) == st = STATUS_CHANGING

\* line 168
select_tool_error_applies(st) == st = STATUS_CHANGING \/ st = STATUS_INITIALIZING

\* lines 167-173
cmd_SELECT_TOOL_ERROR ==
    /\ CanCall
    /\ \E message \in Messages :
          /\ IF select_tool_error_applies(status)
             THEN /\ status' = STATUS_ERROR
                  /\ error_message' = message
             ELSE UNCHANGED <<status, error_message>>
          /\ stack' = CalledWith("SELECT_TOOL_ERROR", message)
                       \o <<[At(Frame("cmd_SELECT_TOOL_ERROR", NoTool, <<>>), "return")
                                EXCEPT !.message = message]>>
    /\ UNCHANGED <<active_tool, tools, tool_numbers, tool_names, initialize_on,
                   gcode_offset, saved_state, exc>>

\* select_tool called directly (a tool's T<n> command, another module).
CallSelectTool ==
    /\ CanCall
    /\ \E tool \in ToolNames \cup {NoTool}, restore_axis \in RestoreAxes,
          gcode_position \in Positions, respond_fails \in BOOLEAN :
          Enter("select_tool",
                select_tool_enter(Frame("select_tool", tool, restore_axis),
                                  gcode_position, respond_fails))

\* test_tool_selection called directly.
CallTestToolSelection ==
    /\ CanCall
    /\ \E restore_axis \in RestoreAxes, gcode_position \in Positions :
          Enter("test_tool_selection",
                test_tool_selection_enter(
                    Frame("test_tool_selection", NoTool, restore_axis),
                    gcode_position))

\* lines 83-85
_handle_home_rails_begin ==
    /\ CanCall
    /\ initialize_on = INIT_ON_HOME /\ status = STATUS_UNINITALIZED
    /\ Enter("G28", initialize_enter(Frame("initialize", NoTool, <<>>)))

----------------------------------------------------------------------------
(* run_gcode (lines 347-362) and the propagation of exceptions.            *)

status_check_skipped(current_status, st) == FALSE

\* line 360
status_changed(current_status, st) == current_status # st

ScriptFaultMarksError ==
    /\ exc = NoExc /\ InScript
    /\ exc' = Raise("Script running error")
    /\ status' = STATUS_ERROR
    /\ UNCHANGED <<active_tool, tools, tool_numbers, tool_names,
                   error_message, initialize_on, gcode_offset, saved_state,
                   stack>>

\* The template raises: caught and raised again at lines 358-359.
ScriptFault ==
    /\ exc = NoExc /\ InScript
    /\ exc' = Raise("Script running error")
    /\ UNCHANGED <<status, active_tool, tools, tool_numbers, tool_names,
                   error_message, initialize_on, gcode_offset, saved_state,
                   stack>>

\* The template has run: lines 360-362.
ScriptFinish ==
    /\ exc = NoExc /\ InScript
    /\ IF status_changed(Top.current_status, status)
       THEN /\ exc' = Raise("Unexpected status")
            /\ stack' = Raised
       ELSE /\ exc' = exc
            /\ stack' = SetTop(stack, At(Top, "return"))
    /\ UNCHANGED <<status, active_tool, tools, tool_numbers, tool_names,
                   error_message, initialize_on, gcode_offset, saved_state>>

\* A method returns to its caller.
Return ==
    /\ exc = NoExc /\ stack # <<>> /\ Top.pc = "return"
    /\ stack' = Pop(stack)
    /\ UNCHANGED <<status, active_tool, tools, tool_numbers, tool_names,
                   error_message, initialize_on, gcode_offset, saved_state,
                   exc>>

\* The exception propagates through every frame to the command dispatcher,
\* which reports it (a running template passes it on as a script running
\* error, lines 358-359).
Propagate ==
    /\ exc # NoExc
    /\ stack' = <<>>
    /\ exc' = NoExc
    /\ UNCHANGED <<status, active_tool, tools, tool_numbers, tool_names,
                   error_message, initialize_on, gcode_offset, saved_state>>

Next ==
    \/ AssignTool
    \/ cmd_INITIALIZE_TOOLCHANGER
    \/ cmd_SELECT_TOOL
    \/ cmd_UNSELECT_TOOL
    \/ cmd_TEST_TOOL_DOCKING
    \/ cmd_SELECT_TOOL_ERROR
    \/ CallSelectTool
    \/ CallTestToolSelection
    \/ _handle_home_rails_begin
    \/ initialize_select
    \/ initialize_offset
    \/ initialize_finish
    \/ select_tool_resume
    \/ select_tool_dropoff
    \/ select_tool_pickup
    \/ select_tool_after_change
    \/ select_tool_finish
    \/ test_tool_selection_pickup
    \/ test_tool_selection_finish
    \/ ScriptFault
    \/ ScriptFinish
    \/ Return
    \/ Propagate

Spec == Init /\ [][Next]_vars

----------------------------------------------------------------------------
(* The registry on its own: any tool is assigned any number, no command    *)
(* runs.                                                                   *)

AssignAnyTool ==
    \E tool \in ToolNames, number \in Numbers, prev_number \in PrevNumbers,
       replace \in BOOLEAN :
       AssignToolCall(tool, number, prev_number, replace, MaxRegLen)

NextRegistry ==
    \/ AssignAnyTool
    \/ Propagate

SpecRegistry == Init /\ [][NextRegistry]_vars

----------------------------------------------------------------------------
(* _restore_position_with_tool_offset on its own: called with any position, *)
(* axis string and tool.                                                   *)

CallRestorePosition ==
    /\ exc = NoExc /\ stack = <<>>
    /\ \E position \in Positions, axis \in AxisStrings,
          tool \in ToolNames \cup {NoTool} :
          LET r == _restore_position_with_tool_offset(position, axis, tool)
              frame == [Frame("_restore_position_with_tool_offset", tool, axis)
                           EXCEPT !.position = position]
          IN  IF r.raises # "none"
              THEN /\ exc' = Raise(r.raises)
                   /\ stack' = <<At(frame, "raised")>>
              ELSE /\ exc' = exc
                   /\ stack' = <<[At(frame, "return") EXCEPT
                                     !.restore_position = r.value]>>
    /\ UNCHANGED <<status, active_tool, tools, tool_numbers, tool_names,
                   error_message, initialize_on, gcode_offset, saved_state>>

NextRestore ==
    \/ CallRestorePosition
    \/ Return
    \/ Propagate

SpecRestore == Init /\ [][NextRestore]_vars

----------------------------------------------------------------------------
(* Properties of the registry (checked under SpecRegistry).                *)

Keys(seq) == {seq[i] : i \in 1..Len(seq)}

NoRepeat(seq) == \A i \in 1..Len(seq), j \in 1..Len(seq) : seq[i] = seq[j] => i = j

\* tool_numbers is the keys of tools in strictly ascending order, tool_names
\* is as long, and the i-th name is the tool mapped at the i-th number.
Synchronized(reg) ==
    /\ Len(reg.tool_names) = Len(reg.tool_numbers)
    /\ Keys(reg.tool_numbers) = DOMAIN reg.tools
    /\ \A i \in 1..(Len(reg.tool_numbers) - 1) :
          reg.tool_numbers[i] < reg.tool_numbers[i + 1]
    /\ \A i \in 1..Len(reg.tool_numbers) :
          reg.tool_names[i] = reg.tools[reg.tool_numbers[i]]

\* No number and no name occurs twice in the mapping or in either list.
NoDuplicates(reg) ==
    /\ NoRepeat(reg.tool_numbers)
    /\ NoRepeat(reg.tool_names)
    /\ \A m \in DOMAIN reg.tools, n \in DOMAIN reg.tools :
          reg.tools[m] = reg.tools[n] => m = n

\* C4: after every assign_tool call, failing ones included, the registry is
\* synchronized, and a call that returns leaves lookup_tool(number) equal to
\* the tool it assigned.
C4_RegistrySynchronized ==
    [][/\ Synchronized(Reg')
       /\ \A tool \in ToolNames, number \in Numbers, prev_number \in PrevNumbers,
             replace \in BOOLEAN :
             (AssignToolCall(tool, number, prev_number, replace, MaxRegLen)
              /\ exc' = NoExc)
             => lookup_tool(Reg', number) = tool]_vars

\* C5: assign_tool(tool, number, prev_number, replace=True) for a tool
\* registered at prev_number in a synchronized registry, whatever number is,
\* returns, removes the old pair and leaves no number and no name twice in
\* the mapping or in the lists.
C5_ReassignLeavesNoDuplicates ==
    [][\A tool \in ToolNames, number \in Numbers, prev_number \in Numbers :
          (/\ Synchronized(Reg)
           /\ lookup_tool(Reg, prev_number) = tool
           /\ AssignToolCall(tool, number, prev_number, TRUE, MaxRegLen))
          => /\ exc' = NoExc
             /\ NoDuplicates(Reg')
             /\ number # prev_number
                  => /\ prev_number \notin DOMAIN tools'
                     /\ ~Contains(tool_numbers', prev_number)]_vars

----------------------------------------------------------------------------
(* Properties of _restore_position_with_tool_offset (checked under         *)
(* SpecRestore).                                                           *)

\* position[axis] plus the tool's offset for that axis, where it has one.
ExpectedRestore(position, tool, index) ==
    position[index + 1]
    + (IF tool = NoTool \/ tool_offset(tool, index) = None
       THEN 0 ELSE Value(tool_offset(tool, index)))

\* C6: _restore_position_with_tool_offset(position, axis, tool) returns for
\* every tool, also one that leaves an axis offset undefined, and its result
\* holds for every axis of the string position[axis], plus the tool's offset
\* for that axis when the tool defines one.
C6_RestorePositionTotal ==
    (stack # <<>> /\ Top.op = "_restore_position_with_tool_offset")
    => /\ Top.pc = "return"
       /\ \A k \in 1..Len(Top.axis) :
             LET index == XYZ_TO_INDEX[Top.axis[k]]
             IN  Top.restore_position[INDEX_TO_XYZ[index + 1]]
                 = ExpectedRestore(Top.position, Top.tool, index)

----------------------------------------------------------------------------
(* Properties of the commands (checked under Spec).                        *)

\* The applied offset is the tool's offset, to the six decimals
\* SET_GCODE_OFFSET is given, on every axis the tool defines.
ToolOffsetApplied(tool, offset) ==
    \A i \in 1..3 :
       tool_offset(tool, i - 1) # None
       => offset[i] = FormatF(Value(tool_offset(tool, i - 1)))

\* C1: when select_tool returns, status is ready, active_tool is the
\* requested tool (None for an unselect) and, if a tool is active, its gcode
\* offset is the applied offset.
C1_SelectToolPostcondition ==
    Running("select_tool", "return")
    => /\ status = STATUS_READY
       /\ active_tool = Top.tool
       /\ active_tool # NoTool => ToolOffsetApplied(active_tool, gcode_offset)

\* The frame a call made in this step has pushed.
Callee == stack'[Len(stack) + 1]
Calls(op) == Len(stack') > Len(stack) /\ Callee.op = op

\* C3: select_tool called in status ready with the active tool (or with None
\* when no tool is active) runs no hook, issues no offset or move command and
\* leaves status and active_tool as they are.
C3_SelectActiveToolIsNoOp ==
    [][(/\ exc = NoExc /\ status = STATUS_READY
        /\ \/ Calls("select_tool") /\ Callee.tool = active_tool
           \/ exc'.kind = "AttributeError")
       => /\ status' = STATUS_READY
          /\ active_tool' = active_tool
          /\ gcode_offset' = gcode_offset
          /\ saved_state' = saved_state
          /\ IF exc' = NoExc
             THEN /\ Len(stack') = Len(stack) + 1
                  /\ Callee.pc = "return"
                  /\ Callee.trace = <<>>
                  /\ Callee.g0 = <<>>
             ELSE Len(stack') <= Len(stack)]_vars

C3_Witness ==
    /\ Running("select_tool", "return")
    /\ Top.trace = <<>>
    /\ Top.tool = active_tool
    /\ active_tool # NoTool
    /\ status = STATUS_READY

\* C9: SELECT_TOOL_ERROR sets status to error and records MESSAGE exactly
\* when status is changing or initializing; in any other status it returns
\* and leaves status and error_message alone.  It never touches active_tool
\* or the registry.
C9_SelectToolError ==
    [][Calls("cmd_SELECT_TOOL_ERROR")
       => /\ exc' = NoExc
          /\ UNCHANGED <<active_tool, tools, tool_numbers, tool_names>>
          /\ IF status \in {STATUS_CHANGING, STATUS_INITIALIZING}
             THEN status' = STATUS_ERROR /\ error_message' = Callee.message
             ELSE UNCHANGED <<status, error_message>>]_vars

C9_Witness ==
    /\ Running("cmd_SELECT_TOOL_ERROR", "return")
    /\ Len(stack) > 1
    /\ stack[Len(stack) - 1].current_status = STATUS_INITIALIZING
    /\ status = STATUS_ERROR
    /\ error_message = Top.message

\* What a refused operation raises: select_tool and test_tool_selection
\* when status is not ready, initialize when status is changing, assign_tool
\* on a duplicate number.
Refusals == {"Cannot select tool", "Cannot test tool",
             "Cannot initialize while changing tools", "Duplicate tools"}

\* C10: a refused operation, also one issued by a hook, leaves status,
\* active_tool, error_message, the registry and the applied offset as they
\* were and runs no hook.
C10_RefusedChangesNothing ==
    [][(exc = NoExc /\ exc'.kind \in Refusals)
       => /\ UNCHANGED <<status, active_tool, error_message, tools,
                         tool_numbers, tool_names, gcode_offset>>
          /\ Len(stack') = Len(stack)]_vars

C10_Witness ==
    /\ exc.kind = "Cannot select tool"
    /\ InScript
    /\ status = STATUS_CHANGING

\* A hook of select_tool has run to its end after its script has issued
\* SELECT_TOOL_ERROR.
SignalledHookDone ==
    /\ Len(stack) > 1
    /\ Top.op = "run_gcode"
    /\ Top.pc \in {"return", "raised"}
    /\ Top.message # NoMsg
    /\ stack[Len(stack) - 1].op = "select_tool"

\* An exception ends the operation: nothing further runs.
RaiseEndsOperation == [][exc # NoExc => stack' = <<>> /\ exc' = NoExc]_vars

\* C2 as claimed: when a hook of select_tool has issued SELECT_TOOL_ERROR
\* and its script ends, run_gcode raises the unexpected-status error, no
\* later hook runs, and status is error with error_message the MESSAGE.
C2_HookSignalLeavesError ==
    /\ [](SignalledHookDone
           => /\ Top.pc = "raised"
              /\ exc.kind = "Unexpected status"
              /\ status = STATUS_ERROR
              /\ error_message = Top.message)
    /\ RaiseEndsOperation

\* C2 as amended: when a hook of select_tool has issued SELECT_TOOL_ERROR
\* and its script ends, run_gcode raises the unexpected-status error, no
\* later hook runs and error_message is the MESSAGE; status is error, unless
\* the script went on to issue further commands that initialized the
\* toolchanger again, and then it is ready.
C2_HookSignalFailsSelect ==
    /\ [](SignalledHookDone
           => /\ Top.pc = "raised"
              /\ exc.kind = "Unexpected status"
              /\ error_message = Top.message
              /\ \/ status = STATUS_ERROR
                 \/ (status = STATUS_READY /\ Top.cmds >= 2))
    /\ RaiseEndsOperation

C2_Witness ==
    /\ SignalledHookDone
    /\ Top.name = "tool.pickup_gcode"
    /\ exc.kind = "Unexpected status"
    /\ status = STATUS_ERROR

\* The calls of a frame's trace that are named name.
CallsNamed(frame, name) ==
    {frame.trace[i] : i \in {k \in 1..Len(frame.trace) : frame.trace[k][1] = name}}

\* select_tool has returned after a change from a tool to another tool.
ChangedTool ==
    /\ Running("select_tool", "return")
    /\ Top.tool # NoTool
    /\ \E e \in CallsNamed(Top, "tool.dropoff_gcode") : e[2] # Top.tool

RestoreMoveAsRequested(frame) ==
    IF frame.axis = <<>>
    THEN frame.g0 = <<>>
    ELSE /\ Len(frame.g0) = 1
         /\ DOMAIN frame.g0[1]
              = {INDEX_TO_XYZ[XYZ_TO_INDEX[frame.axis[k]] + 1] : k \in 1..Len(frame.axis)}
         /\ \A k \in 1..Len(frame.axis) :
               LET index == XYZ_TO_INDEX[frame.axis[k]]
               IN  frame.g0[1][INDEX_TO_XYZ[index + 1]]
                   = ExpectedRestore(frame.position, frame.tool, index)
         /\ frame.g0[1] = frame.restore_position

\* Every hook of select_tool is given the restore_position select_tool
\* computed.
HooksGivenRestorePosition ==
    (Len(stack) > 1 /\ Top.op = "run_gcode"
     /\ stack[Len(stack) - 1].op = "select_tool")
    => Top.restore_position = stack[Len(stack) - 1].restore_position

\* C8 as claimed: a select_tool that returns has issued one restore move
\* when restore_axis is not empty and none when it is; the target is the
\* position captured before any hook ran plus the requested tool's offset,
\* and is the restore_position given to the hooks.
C8_RestoreMove ==
    /\ HooksGivenRestorePosition
    /\ Running("select_tool", "return")
       => /\ RestoreMoveAsRequested(Top)
          /\ CallsNamed(Top, "initialize") = {}

\* C8 as amended: a select_tool that changes the tool and returns has
\* issued one restore move when restore_axis is not empty and none when it
\* is; the target is the captured position plus the requested tool's offset
\* and is the restore_position given to the hooks; the position is captured
\* before any hook of the change runs, after the initialize of a first use.
C8_RestoreMoveOfChange ==
    /\ HooksGivenRestorePosition
    /\ (Running("select_tool", "return")
        /\ CallsNamed(Top, "SAVE_GCODE_STATE") # {})
       => /\ RestoreMoveAsRequested(Top)
          /\ \/ Top.trace[1][1] = "SAVE_GCODE_STATE"
             \/ (Top.trace[1][1] = "initialize"
                 /\ Top.trace[2][1] = "SAVE_GCODE_STATE")

C8_Witness ==
    /\ Running("select_tool", "return")
    /\ Top.tool = "T2"
    /\ Top.axis = <<"Z">>
    /\ Top.position = <<0, 30, 70>>
    /\ Top.g0 = <<[k \in {"Z"} |-> 123]>>

----------------------------------------------------------------------------
(* Properties of initialize and of the status field (checked under Spec).  *)

\* The initialize hook of an initialize call that runs it (an outermost call)
\* has run to its end after its script has issued SELECT_TOOL_ERROR.
SignalledInitHookDone ==
    /\ Len(stack) > 1
    /\ Top.op = "run_gcode"
    /\ Top.name = "initialize_gcode"
    /\ Top.pc \in {"return", "raised"}
    /\ Top.message # NoMsg
    /\ stack[Len(stack) - 1].op = "initialize"
    /\ stack[Len(stack) - 1].should_run_initialize

Registered == {tools[n] : n \in DOMAIN tools}

\* C12: in every reachable state the active tool, if there is one, is a tool
\* held in the registry mapping.
C12_ActiveToolRegistered == active_tool # NoTool => active_tool \in Registered

\* The status changes the state machine documents.
DocumentedTransitions ==
    {<<STATUS_UNINITALIZED, STATUS_INITIALIZING>>,
     <<STATUS_INITIALIZING, STATUS_READY>>,
     <<STATUS_READY, STATUS_CHANGING>>,
     <<STATUS_CHANGING, STATUS_READY>>,
     <<STATUS_INITIALIZING, STATUS_ERROR>>,
     <<STATUS_CHANGING, STATUS_ERROR>>,
     <<STATUS_ERROR, STATUS_INITIALIZING>>}

\* This step calls initialize, which runs as an outermost call.
CallsOutermostInitialize ==
    \E k \in (Len(stack) + 1)..Len(stack') :
       stack'[k].op = "initialize" /\ stack'[k].should_run_initialize

\* C13 as claimed: every change of status is a documented transition, and a
\* status becomes initializing only in a step that calls initialize.
C13_StatusTransitions ==
    [][status' # status
       => /\ <<status, status'>> \in DocumentedTransitions
          /\ status' = STATUS_INITIALIZING => CallsOutermostInitialize]_vars

\* C13 as amended: every change of status is a documented transition or the
\* change from ready to initializing, and a status becomes initializing only
\* in a step that calls initialize.
C13_StatusTransitionsWithReinitialize ==
    [][status' # status
       => /\ <<status, status'>> \in DocumentedTransitions
                                     \cup {<<STATUS_READY, STATUS_INITIALIZING>>}
          /\ status' = STATUS_INITIALIZING => CallsOutermostInitialize]_vars

\* An initialize called in status ready has set initializing: no error was
\* ever signalled and a tool is active, so the status it found was ready.
C13_Witness ==
    /\ status = STATUS_INITIALIZING
    /\ error_message = ""
    /\ active_tool # NoTool
    /\ Len(stack) = 2
    /\ stack[1].op = "initialize"
    /\ stack[1].should_run_initialize
    /\ stack[1].pc = "l201"
    /\ InScript

\* The position of the first call named name in a frame's trace (0: none).
FirstCall(frame, name) ==
    IF CallsNamed(frame, name) = {} THEN 0
    ELSE CHOOSE k \in 1..Len(frame.trace) :
            /\ frame.trace[k][1] = name
            /\ \A j \in 1..(k - 1) : frame.trace[j][1] # name

\* This step is a select_tool call that first initializes: it leaves
\* select_tool waiting at line 217 for initialize, which has set status
\* initializing and is running the initialize hook.
SelectInitializesFirst ==
    /\ Len(stack') = Len(stack) + 3
    /\ Callee.pc = "l218"
    /\ Callee.trace = <<Ev("initialize", "")>>
    /\ stack'[Len(stack) + 2].op = "initialize"
    /\ stack'[Len(stack) + 2].tool = NoTool
    /\ stack'[Len(stack) + 2].should_run_initialize
    /\ stack'[Len(stack) + 3].op = "run_gcode"
    /\ stack'[Len(stack) + 3].name = "initialize_gcode"
    /\ stack'[Len(stack) + 3].pc = "script"
    /\ status' = STATUS_INITIALIZING
    /\ exc' = NoExc

\* C14: in status uninitialized, select_tool with initialize_on = first-use
\* first calls initialize, whose hook runs before any hook of the change, and
\* then goes on: the select_tool of a tool raises nothing itself (it fails
\* only if a hook does) and when it returns status is ready and active_tool
\* is that tool; with any other initialize_on it is refused without running
\* a hook.
C14_FirstUseInitializes ==
    /\ [][(exc = NoExc /\ status = STATUS_UNINITALIZED)
          => IF initialize_on = INIT_FIRST_USE
             THEN /\ exc'.kind # "Cannot select tool"
                  /\ Calls("select_tool") => SelectInitializesFirst
             ELSE /\ ~Calls("select_tool")
                  /\ exc'.kind = "Cannot select tool"
                       => /\ Len(stack') = Len(stack)
                          /\ UNCHANGED <<status, active_tool, gcode_offset,
                                         saved_state, error_message>>]_vars
    /\ []((stack # <<>> /\ Top.op = "select_tool"
           /\ CallsNamed(Top, "initialize") # {})
          => /\ FirstCall(Top, "initialize") = 1
             /\ \A e \in {Top.trace[k] : k \in 2..Len(Top.trace)} :
                   e[1] # "initialize"
             /\ initialize_on = INIT_FIRST_USE
             /\ (exc = NoExc /\ Top.pc = "return" /\ Top.tool # NoTool)
                  => (status = STATUS_READY /\ active_tool = Top.tool))
    /\ [][(exc = NoExc /\ stack # <<>> /\ Top.op = "select_tool"
           /\ CallsNamed(Top, "initialize") # {} /\ Top.tool # NoTool)
          => exc' = NoExc]_vars

\* The number of calls named name in a frame's trace.
CountCalls(frame, name) ==
    Cardinality({k \in 1..Len(frame.trace) : frame.trace[k][1] = name})

\* The initialize calls on the stack, and those made from inside another
\* initialize.
InitializeFrames(s) == {k \in 1..Len(s) : s[k].op = "initialize"}
NestedInitialize(s, k) == \E j \in 1..(k - 1) : s[j].op = "initialize"

\* What an initialize call that does not run the initialize hook may do:
\* activate the tool (running the after-change hook) and apply its offset.
ActivationCalls ==
    {"activate", "deactivate", "after_change_gcode", "SET_GCODE_OFFSET",
     "BED_MESH_OFFSET"}

\* An initialize called in status initializing runs no initialize hook and
\* leaves status alone; any other initialize call runs it.
InitializeCallRule ==
    [][\A k \in InitializeFrames(stack') :
          k > Len(stack)
          => IF status = STATUS_INITIALIZING
             THEN /\ ~stack'[k].should_run_initialize
                  /\ stack'[k].trace = <<>>
                  /\ Len(stack') = k
                  /\ status' = status
             ELSE /\ stack'[k].should_run_initialize
                  /\ Len(stack') = k + 1
                  /\ stack'[k + 1].name = "initialize_gcode"]_vars

\* A call that runs the initialize hook runs it once, before anything else;
\* a call that does not only activates the tool and applies its offset, and
\* when it returns status is still initializing.
InitializeFrameRule ==
    \A k \in InitializeFrames(stack) :
       IF stack[k].should_run_initialize
       THEN /\ CountCalls(stack[k], "initialize_gcode") = 1
            /\ stack[k].trace[1][1] = "initialize_gcode"
       ELSE /\ \A i \in 1..Len(stack[k].trace) :
                  stack[k].trace[i][1] \in ActivationCalls
            /\ (k = Len(stack) /\ exc = NoExc /\ stack[k].pc = "return")
                 => status = STATUS_INITIALIZING

\* C15 as claimed: an initialize called in status initializing runs no
\* initialize hook and leaves status alone, only activating the tool and
\* applying its offset; no initialize called from inside another runs the
\* initialize hook, and only an outermost call sets ready.
C15_NestedInitialize ==
    /\ InitializeCallRule
    /\ [](/\ InitializeFrameRule
          /\ \A k \in InitializeFrames(stack) :
                NestedInitialize(stack, k) => ~stack[k].should_run_initialize)
    /\ [][(status = STATUS_INITIALIZING /\ status' = STATUS_READY)
          => /\ Running("initialize", "l206")
             /\ Top.should_run_initialize
             /\ ~NestedInitialize(stack, Len(stack))]_vars

\* C15 as amended: an initialize called in status initializing runs no
\* initialize hook and leaves status alone, only activating the tool (with
\* the after-change hook) and applying its offset; every initialize called
\* in another status runs the initialize hook exactly once, also when it is
\* called from inside the initialize hook after an error was signalled, and
\* only such a call sets ready.
C15_InitializeInInitializing ==
    /\ InitializeCallRule
    /\ []InitializeFrameRule
    /\ [][(status = STATUS_INITIALIZING /\ status' = STATUS_READY)
          => /\ Running("initialize", "l206")
             /\ Top.should_run_initialize]_vars

C15_Witness ==
    /\ Running("initialize", "return")
    /\ ~Top.should_run_initialize
    /\ NestedInitialize(stack, Len(stack))
    /\ Top.tool = "T1"
    /\ active_tool = "T1"
    /\ gcode_offset = <<10, 20, 0>>
    /\ status = STATUS_INITIALIZING

----------------------------------------------------------------------------
(* Properties of the change sequence (checked under Spec).                 *)

\* The frame is a select_tool or test_tool_selection that has set status
\* changing (lines 226, 274).
EnteredChanging(frame) ==
    \/ frame.op = "select_tool" /\ CallsNamed(frame, "SAVE_GCODE_STATE") # {}
    \/ frame.op = "test_tool_selection"

\* A hook on the stack has issued SELECT_TOOL_ERROR.
HookSignalled == \E k \in 1..Len(stack) : stack[k].message # NoMsg

\* An operation that has set status changing has ended, by returning or by
\* an exception.
ChangeEnded ==
    \E k \in 1..Len(stack) :
       /\ EnteredChanging(stack[k])
       /\ \/ exc # NoExc
          \/ k = Len(stack) /\ stack[k].pc = "return"

\* C16 as claimed: when a select_tool or test_tool_selection that has set
\* status changing ends, by returning or by an exception, status is ready or
\* error; status is never changing when nothing runs.
C16_ChangingRunsToTerminal ==
    /\ ChangeEnded => status \in {STATUS_READY, STATUS_ERROR}
    /\ (stack = <<>> /\ exc = NoExc) => status # STATUS_CHANGING

\* C16 as amended: a select_tool or test_tool_selection that has set status
\* changing and returns leaves status ready; an exception never changes
\* status, so that an operation that fails leaves status changing unless one
\* of its hooks has issued SELECT_TOOL_ERROR.
C16_ChangingLeftOnFault ==
    /\ [](\A k \in 1..Len(stack) :
             EnteredChanging(stack[k])
             => /\ (exc = NoExc /\ k = Len(stack) /\ stack[k].pc = "return")
                     => status = STATUS_READY
                /\ (exc # NoExc /\ ~HookSignalled)
                     => status = STATUS_CHANGING)
    /\ [][(exc' # exc)
          => \/ status' = status
             \/ (status = STATUS_READY /\ status' = STATUS_CHANGING
                 /\ exc'.kind = "TypeError")]_vars

C16_Witness ==
    /\ exc.kind = "Script running error"
    /\ Len(stack) = 2
    /\ EnteredChanging(stack[1])
    /\ stack[1].op = "select_tool"
    /\ Top.name = "tool.pickup_gcode"
    /\ status = STATUS_CHANGING

----------------------------------------------------------------------------
(* Recovery after a failed operation (checked under Spec).                 *)

\* Nothing runs: the next command is the user's.
Idle == stack = <<>> /\ exc = NoExc

\* The user issues an initialize, which is carried out or refused.
InitializeIssued ==
    \/ Calls("initialize")
    \/ exc'.kind = "Cannot initialize while changing tools"

\* An initialize the user called has returned.
UserInitializeReturned ==
    /\ Len(stack) = 1
    /\ exc = NoExc
    /\ Top.op = "initialize"
    /\ Top.pc = "return"

----------------------------------------------------------------------------
(* The order of the change sequence (checked under Spec).                  *)

\* The place of a call in the documented sequence of select_tool.
StepRank(e) ==
    CASE e[1] = "initialize" -> 0
      [] e[1] = "SAVE_GCODE_STATE" -> 1
      [] e[1] = "before_change_gcode" -> 2
      [] e[1] = "SET_GCODE_OFFSET" /\ e[2] = "0" -> 3
      [] e[1] = "tool.dropoff_gcode" -> 4
      [] e[1] = "deactivate" -> 5
      [] e[1] = "activate" -> 6
      [] e[1] = "tool.pickup_gcode" -> 7
      [] e[1] = "after_change_gcode" -> 8
      [] e[1] = "G0" -> 9
      [] e[1] = "RESTORE_GCODE_STATE" -> 10
      [] e[1] = "SET_GCODE_OFFSET" /\ e[2] # "0" -> 11
      [] e[1] = "BED_MESH_OFFSET" -> 12
      [] OTHER -> 99

Ranks(frame) == {StepRank(frame.trace[k]) : k \in 1..Len(frame.trace)}

\* The calls of the frame were made in the documented order, none twice.
InSequence(frame) ==
    \A i \in 1..Len(frame.trace), j \in 1..Len(frame.trace) :
       i < j => StepRank(frame.trace[i]) < StepRank(frame.trace[j])

\* The steps a select_tool that has changed the tool has made: the
\* unconditional ones, and the conditional ones exactly when they apply.
StepsOfChange(frame) ==
    /\ {1, 2, 3, 10} \subseteq Ranks(frame)
    /\ 99 \notin Ranks(frame)
    /\ (frame.tool # NoTool) <=> ({6, 7, 8} \subseteq Ranks(frame))
    /\ (frame.tool = NoTool) => (Ranks(frame) \cap {5, 6, 7, 8, 11, 12} = {})
    /\ (5 \in Ranks(frame)) => (4 \in Ranks(frame))
    /\ (9 \in Ranks(frame)) <=> (frame.axis # <<>>)
    /\ (11 \in Ranks(frame)) <=> (frame.tool # NoTool)
    /\ \A e \in {frame.trace[k] : k \in 1..Len(frame.trace)} :
          /\ StepRank(e) \in {6, 7, 11} => e[2] = frame.tool
          /\ StepRank(e) \in {4, 5}
               => \A d \in CallsNamed(frame, "tool.dropoff_gcode")
                            \cup CallsNamed(frame, "deactivate") : d[2] = e[2]

\* The hooks select_tool runs as part of the change sequence.
ChangeHooks ==
    {k \in 2..Len(stack) :
        /\ stack[k].op = "run_gcode"
        /\ stack[k - 1].op = "select_tool"
        /\ stack[k].message = NoMsg}

\* C18: a select_tool that changes the tool and returns has saved the gcode
\* state, run the before-change hook, zeroed the offset, run the dropoff hook
\* of the tool that was active (if one was), deactivated it and activated the
\* new tool, run its pickup hook and the after-change hook (these three only
\* for a new tool), made the restore move, restored the saved state and
\* applied the new tool's offset, in this order and each at most once, and
\* status is ready.  While a hook of the sequence runs status is changing,
\* and while a dropoff or pickup hook runs the applied offset is zero.
C18_ChangeSequenceOrder ==
    /\ [](\A k \in 1..Len(stack) :
             stack[k].op = "select_tool"
             => /\ InSequence(stack[k])
                /\ (k = Len(stack) /\ exc = NoExc /\ stack[k].pc = "return"
                    /\ EnteredChanging(stack[k]))
                     => (StepsOfChange(stack[k]) /\ status = STATUS_READY))
    /\ [](\A k \in ChangeHooks :
             /\ status = STATUS_CHANGING
             /\ stack[k].current_status = STATUS_CHANGING
             /\ stack[k].name \in {"tool.dropoff_gcode", "tool.pickup_gcode"}
                  => gcode_offset = ZeroOffset)
    /\ [][(Running("select_tool", "l240") /\ stack' # <<>>)
          => (Calls("run_gcode") <=> active_tool # NoTool)
             /\ (Calls("run_gcode") => (Callee.name = "tool.dropoff_gcode"
                                        /\ Callee.tool = active_tool))]_vars

C18_Witness ==
    /\ Running("select_tool", "return")
    /\ Top.tool = "T2"
    /\ Ranks(Top) = 1..11
    /\ Ev("tool.dropoff_gcode", "T1") \in CallsNamed(Top, "tool.dropoff_gcode")
    /\ status = STATUS_READY

----------------------------------------------------------------------------
(* test_tool_selection (checked under Spec).                               *)

\* The calls test_tool_selection makes for the tool, in order.
DockingCalls(frame) ==
    <<Ev("SET_GCODE_OFFSET", "0"), Ev("tool.dropoff_gcode", frame.tool),
      Ev("tool.pickup_gcode", frame.tool)>>
    \o (IF frame.axis # <<>> THEN <<Ev("G0", "")>> ELSE <<>>)

\* The frame's trace is the beginning of seq.
IsPrefix(trace, seq) ==
    /\ Len(trace) <= Len(seq)
    /\ \A k \in 1..Len(trace) : trace[k] = seq[k]

\* C19: test_tool_selection called when status is not ready or no tool is
\* active raises and changes nothing; otherwise it sets status changing,
\* zeroes the offset and runs the active tool's dropoff hook and then its
\* pickup hook, no other hook and no deactivate or activate, then makes the
\* restore move to the captured position with no tool offset added, and when
\* it returns status is ready and active_tool is the tool that was active.
C19_TestToolSelection ==
    /\ [][(cmd_TEST_TOOL_DOCKING \/ CallTestToolSelection)
          => IF status = STATUS_READY /\ active_tool # NoTool
             THEN /\ exc' = NoExc
                  /\ Calls("test_tool_selection")
                  /\ Callee.tool = active_tool
                  /\ status' = STATUS_CHANGING
                  /\ gcode_offset' = ZeroOffset
                  /\ Len(stack') = Len(stack) + 2
                  /\ stack'[Len(stack') ].name = "tool.dropoff_gcode"
                  /\ stack'[Len(stack')].tool = active_tool
                  /\ active_tool' = active_tool
             ELSE /\ exc'.kind \in {"Cannot test tool",
                                    "Cannot test tool, no active tool"}
                  /\ Len(stack') = Len(stack)
                  /\ UNCHANGED <<status, active_tool, gcode_offset,
                                 saved_state, error_message, tools,
                                 tool_numbers, tool_names>>]_vars
    /\ [](\A k \in 1..Len(stack) :
             stack[k].op = "test_tool_selection"
             => /\ IsPrefix(stack[k].trace, DockingCalls(stack[k]))
                /\ (k = Len(stack) /\ exc = NoExc /\ stack[k].pc = "return")
                     => /\ stack[k].trace = DockingCalls(stack[k])
                        /\ status = STATUS_READY
                        /\ active_tool = stack[k].tool
                        /\ IF stack[k].axis = <<>>
                           THEN stack[k].g0 = <<>>
                           ELSE /\ Len(stack[k].g0) = 1
                                /\ \A i \in 1..Len(stack[k].axis) :
                                      LET index == XYZ_TO_INDEX[stack[k].axis[i]]
                                      IN  stack[k].g0[1][INDEX_TO_XYZ[index + 1]]
                                          = stack[k].position[index + 1])

\* C20: in every reachable state with status ready and a tool active, the
\* applied offset is the active tool's offset on every axis the tool defines
\* (stated of the states between operations, when nothing runs).
C20_ReadyToolOffsetApplied ==
    (Idle /\ status = STATUS_READY /\ active_tool # NoTool)
    => ToolOffsetApplied(active_tool, gcode_offset)

====
